---- MODULE Spec2Model ----
(***************************************************************************)
(* Retrieval core of the HMO chatbot backend: the document parser and the  *)
(* knowledge base (backend/app/services/knowledge_base.py) and the         *)
(* embedding index with ranked retrieval and context assembly              *)
(* (backend/app/services/embeddings.py).                                   *)
(*                                                                         *)
(* A text is a sequence of whitespace-separated words, so str.split() is   *)
(* the word sequence itself, strip() leaves it unchanged and a text is     *)
(* empty exactly when the sequence is.  Hebrew literals of the source are  *)
(* written as English glosses.                                             *)
(***************************************************************************)
EXTENDS Integers, Sequences, FiniteSets, TLC

VARIABLES
    disk,               \* file name -> the document stored under data_directory
    chunks,             \* KnowledgeBaseService.chunks (EmbeddingsService.chunks aliases it)
    chunk_embeddings,   \* EmbeddingsService.chunk_embeddings: chunk_id -> vector
    loads,              \* number of load_knowledge_base calls so far
    builds,             \* number of initialize_knowledge_base calls so far
    op,                 \* the call that has just returned to the caller, or "idle"
    args,               \* its arguments and the environment's choices
    ret,                \* what it returned
    embedded,           \* the texts it sent to the embedding provider, in order
    embeddings_service, \* the module global of embeddings.py: None or the instance
    pc,                 \* request -> kind and position of its handler
    running,            \* the request whose handler the event loop is running
    user_profile        \* the profile the client holds between /collect_user_info requests

service == <<embeddings_service, pc, running>>

vars == <<disk, chunks, chunk_embeddings, loads, builds, op, args, ret, embedded, service,
          user_profile>>

(***************************************************************************)
(* Bounds of the model.                                                    *)
(***************************************************************************)
NumFiles == 2
MaxLoads == 2
MaxFail == 1
MaxRows == 2
MaxBody == 2
MaxTopK == 3
MaxBudgetSteps == 2
MaxAppended == 4
SmallBudget == 8

MidBudget == 16
NumRequests == 2

(***************************************************************************)
(* Generic sequence helpers.                                               *)
(***************************************************************************)
RECURSIVE Flatten(_)
Flatten(ss) == IF ss = <<>> THEN <<>> ELSE Head(ss) \o Flatten(Tail(ss))

RECURSIVE JoinWith(_, _)
JoinWith(sep, ss) ==
    IF ss = <<>> THEN <<>>
    ELSE IF Len(ss) = 1 THEN ss[1]
    ELSE ss[1] \o sep \o JoinWith(sep, Tail(ss))

Range(s) == {s[i] : i \in 1..Len(s)}

Contains(s, x) == \E i \in 1..Len(s) : s[i] = x

SeqsUpTo(S, n) == UNION {[1..k -> S] : k \in 0..n}

(***************************************************************************)
(* Python values.                                                          *)
(***************************************************************************)
None == "<None>"

Falsy(v) == v = None \/ v = ""

(***************************************************************************)
(* Entitlement labels, in the order the source lists them.                 *)
(***************************************************************************)
HMOS == <<"maccabi", "meuhedet", "clalit">>

TIERS == <<"gold", "silver", "bronze">>

html_files == <<"alternative_services.html", "communication_clinic_services.html",
                "dentel_services.html", "optometry_services.html",
                "pragrency_services.html", "workshops_services.html">>

Files == SubSeq(html_files, 1, NumFiles)

extract_service_type(file_name) ==
    CASE file_name = "alternative_services.html" -> <<"complementary", "medicine">>
      [] file_name = "communication_clinic_services.html" -> <<"communication", "clinics">>
      [] file_name = "dentel_services.html" -> <<"dental", "clinics">>
      [] file_name = "optometry_services.html" -> <<"optometry">>
      [] file_name = "pragrency_services.html" -> <<"pregnancy">>
      [] file_name = "workshops_services.html" -> <<"health", "workshops">>
      [] OTHER -> <<"general", "services">>

(***************************************************************************)
(* Words.  SubstringOf(kw, w) is Python's `kw in w` on single words; the   *)
(* words of the model that contain a keyword without being it are listed.  *)
(***************************************************************************)
SubstringOf(kw, w) ==
    \/ w = kw
    \/ (kw = "gold" /\ w = "golden")
    \/ (kw = "info" /\ w = "information")

\* `kw in text` for a keyword without whitespace
Occurs(kw, text) == \E i \in 1..Len(text) : SubstringOf(kw, text[i])

\* text.startswith('the-table')
StartsWithTable(text) == Len(text) > 0 /\ SubstringOf("the-table", text[1])

(***************************************************************************)
(* Documents.  A document is what BeautifulSoup yields for one file: the   *)
(* p, ul and h3 elements in document order (body), and the tr rows of the  *)
(* first table (NoTable when there is none).  A row is the sequence of the *)
(* texts of its cells.  An unreadable file makes open()/read() raise.  A   *)
(* document may also make a later statement of the try block raise: raises *)
(* says so and appended is the number of chunks that the parse had         *)
(* appended to self.chunks when the exception was raised.                  *)
(***************************************************************************)
NoTable == [found |-> FALSE, trs |-> <<>>]

Table(trs) == [found |-> TRUE, trs |-> trs]

P(text) == [tag |-> "p", text |-> text, items |-> <<>>, in_table |-> FALSE]

UL(items, in_table) == [tag |-> "ul", text |-> <<>>, items |-> items, in_table |-> in_table]

H3(text) == [tag |-> "h3", text |-> text, items |-> <<>>, in_table |-> FALSE]

Missing ==
    [exists |-> FALSE, readable |-> FALSE, body |-> <<>>, table |-> NoTable,
     raises |-> FALSE, appended |-> 0]

Unreadable ==
    [exists |-> TRUE, readable |-> FALSE, body |-> <<>>, table |-> NoTable,
     raises |-> TRUE, appended |-> 0]

Document(body, table) ==
    [exists |-> TRUE, readable |-> TRUE, body |-> body, table |-> table,
     raises |-> FALSE, appended |-> 0]

\* a readable document on which a parse step raises after k appends
Raising(doc, k) == [doc EXCEPT !.raises = TRUE, !.appended = k]

(***************************************************************************)
(* KnowledgeChunk and the parser of KnowledgeBaseService.  Each parse step *)
(* returns the chunks it appends to self.chunks, in order.                 *)
(***************************************************************************)
KnowledgeChunk(content, source_file, service_type, chunk_id, hmos, tiers) ==
    [content |-> content, source_file |-> source_file, service_type |-> service_type,
     chunk_id |-> chunk_id, hmos |-> hmos, tiers |-> tiers]

\* the texts of the elements of one tag, in document order
ElementsOf(body, tag) == SelectSeq(body, LAMBDA e : e.tag = tag)

\* "the services include:" followed by one bullet line per service
ServicesPart(services) ==
    <<"the-services", "include:">>
        \o Flatten([i \in 1..Len(services) |-> <<"*">> \o services[i]])

RECURSIVE ListParts(_)
ListParts(uls) ==
    IF uls = <<>> THEN <<>>
    ELSE LET ul == Head(uls)
             services == SelectSeq(ul.items, LAMBDA t : t # <<>>)
         IN  IF ul.in_table \/ services = <<>>
             THEN ListParts(Tail(uls))
             ELSE <<ServicesPart(services)>> \o ListParts(Tail(uls))

DescriptionParts(body) ==
    LET paragraphs == ElementsOf(body, "p")
        kept == SelectSeq(paragraphs, LAMBDA p : p.text # <<>> /\ ~StartsWithTable(p.text))
    IN  [i \in 1..Len(kept) |-> kept[i].text] \o ListParts(ElementsOf(body, "ul"))

parse_header_content(soup, file_name, service_type) ==
    LET description_parts == DescriptionParts(soup.body)
    IN  IF description_parts # <<>>
        THEN <<KnowledgeChunk(service_type \o Flatten(description_parts),
                              file_name, service_type,
                              <<file_name, "header">>, HMOS, TIERS)>>
        ELSE <<>>

extract_tier_info_no_default(hmo_details) ==
    SelectSeq(TIERS, LAMBDA t : Occurs(t, hmo_details))

extract_tier_info_first_match(hmo_details) ==
    LET tiers == SelectSeq(TIERS, LAMBDA t : Occurs(t, hmo_details))
    IN  IF tiers # <<>> THEN <<tiers[1]>> ELSE TIERS

extract_tier_info(hmo_details) ==
    LET tiers == SelectSeq(TIERS, LAMBDA t : Occurs(t, hmo_details))
    IN  IF tiers # <<>> THEN tiers ELSE TIERS

HmoChunksWithoutRowIndex(cells, i, file_name, service_type) ==
    LET service_name == cells[1]
        present == SelectSeq(<<0, 1, 2>>, LAMBDA j : j + 1 < Len(cells))
    IN  [k \in 1..Len(present) |->
            LET hmo_name == HMOS[present[k] + 1]
                hmo_details == cells[present[k] + 2]
            IN  KnowledgeChunk(
                    service_type \o <<"-">> \o service_name
                        \o <<"kupat", "holim:", hmo_name>> \o hmo_details,
                    file_name, service_type,
                    <<file_name>> \o service_name \o <<hmo_name>>,
                    <<hmo_name>>, extract_tier_info(hmo_details))]

\* the inner loop over hmo_names: one chunk per HMO column the row has
HmoChunks(cells, i, file_name, service_type) ==
    LET service_name == cells[1]
        present == SelectSeq(<<0, 1, 2>>, LAMBDA j : j + 1 < Len(cells))
    IN  [k \in 1..Len(present) |->
            LET hmo_name == HMOS[present[k] + 1]
                hmo_details == cells[present[k] + 2]
            IN  KnowledgeChunk(
                    service_type \o <<"-">> \o service_name
                        \o <<"kupat", "holim:", hmo_name>> \o hmo_details,
                    file_name, service_type,
                    <<file_name>> \o service_name \o <<hmo_name, ToString(i)>>,
                    <<hmo_name>>, extract_tier_info(hmo_details))]

RowChunksPartial(cells, i, file_name, service_type) ==
    IF Len(cells) < 2 THEN <<>> ELSE HmoChunks(cells, i, file_name, service_type)

\* the chunks of data row number i (0-based, the header row not counted)
RowChunks(cells, i, file_name, service_type) ==
    IF Len(cells) < 4 THEN <<>> ELSE HmoChunks(cells, i, file_name, service_type)

parse_table_content(soup, file_name, service_type) ==
    IF ~soup.table.found THEN <<>>
    ELSE LET rows == IF soup.table.trs = <<>> THEN <<>> ELSE Tail(soup.table.trs)
         IN  Flatten([r \in 1..Len(rows) |->
                        RowChunks(rows[r], r - 1, file_name, service_type)])

ContactKeywords == <<"phone", "details", "info">>

\* h3.find_next_sibling('ul'): the first ul after position k that is a sibling,
\* as a sequence of at most one element
NextSiblingUl(body, k) ==
    LET later == {j \in (k + 1)..Len(body) : body[j].tag = "ul" /\ ~body[j].in_table}
    IN  IF later = {} THEN <<>> ELSE <<body[CHOOSE j \in later : \A m \in later : j <= m]>>

RECURSIVE ContactSections(_, _)
ContactSections(body, k) ==
    IF k > Len(body) THEN <<>>
    ELSE LET h3 == body[k]
             next_ul == NextSiblingUl(body, k)
         IN  IF /\ h3.tag = "h3"
                /\ \E w \in 1..Len(ContactKeywords) : Occurs(ContactKeywords[w], h3.text)
                /\ next_ul # <<>>
                /\ next_ul[1].items # <<>>
             THEN <<h3.text \o Flatten(next_ul[1].items)>> \o ContactSections(body, k + 1)
             ELSE ContactSections(body, k + 1)

parse_contact_info(soup, file_name, service_type) ==
    LET contact_sections == ContactSections(soup.body, 1)
    IN  IF contact_sections # <<>>
        THEN <<KnowledgeChunk(service_type \o <<"-", "information", "for", "contact">>
                                  \o Flatten(contact_sections),
                              file_name, service_type,
                              <<file_name, "contact">>, HMOS, TIERS)>>
        ELSE <<>>

\* the chunks one file appends; a file that cannot be read appends none, and
\* a parse step that raises ends the parse with the chunks appended so far
\* (the append of the contact chunk is the last statement of the try block)
parse_html_file(doc, file_name) ==
    IF ~doc.readable THEN <<>>
    ELSE LET service_type == extract_service_type(file_name)
             header == parse_header_content(doc, file_name, service_type)
             table == parse_table_content(doc, file_name, service_type)
             contact == parse_contact_info(doc, file_name, service_type)
             k == IF doc.appended < Len(header \o table)
                  THEN doc.appended ELSE Len(header \o table)
         IN  IF doc.raises THEN SubSeq(header \o table, 1, k)
             ELSE header \o table \o contact

RECURSIVE LoadedFromAbortingOnError(_, _)
LoadedFromAbortingOnError(d, f) ==
    IF f > Len(Files) THEN <<>>
    ELSE IF ~d[Files[f]].exists THEN LoadedFromAbortingOnError(d, f + 1)
    ELSE IF d[Files[f]].raises THEN parse_html_file(d[Files[f]], Files[f])
    ELSE parse_html_file(d[Files[f]], Files[f]) \o LoadedFromAbortingOnError(d, f + 1)

LoadedChunksAbortingOnError(d) == LoadedFromAbortingOnError(d, 1)

\* the chunks one load_knowledge_base call appends, file by file
LoadedChunks(d) ==
    Flatten([f \in 1..Len(Files) |->
                IF d[Files[f]].exists THEN parse_html_file(d[Files[f]], Files[f]) ELSE <<>>])

(***************************************************************************)
(* The documents the model draws its inputs from.                          *)
(***************************************************************************)
Intro == <<"services", "overview">>

Caption == <<"the-table", "shows">>

Item == <<"massage">>

ServiceName == <<"acupuncture">>

Plain == <<"discount">>

GoldOnly == <<"gold", "only">>

DetailTexts == {Plain, GoldOnly}

BronzeOrGolden == <<"bronze", "or", "golden">>

SilverTwice == <<"silver", "and", "silver">>

\* a row whose cells name several tiers, out of order, twice, inside a word
TierRow == <<ServiceName, BronzeOrGolden, SilverTwice, Plain>>

BodyElements ==
    {P(<<>>), P(Caption), P(Intro),
     UL(<<>>, FALSE), UL(<<Item>>, FALSE), UL(<<<<>>>>, FALSE), UL(<<Item>>, TRUE),
     H3(<<"phone">>), H3(<<"hours">>)}

Bodies == SeqsUpTo(BodyElements, MaxBody)

SimpleBodies ==
    {<<>>, <<P(Intro)>>, <<P(Intro), H3(<<"phone">>), UL(<<Item>>, FALSE)>>}

HeaderRow == <<<<"service">>, <<"maccabi">>, <<"meuhedet">>, <<"clalit">>>>

MixedRow == <<ServiceName, Plain, GoldOnly, Plain>>

RowSet ==
    {SubSeq(<<ServiceName, Plain, Plain>>, 1, n) : n \in 0..3}
        \cup {<<ServiceName, a, b, c>> : a \in DetailTexts, b \in DetailTexts, c \in DetailTexts}
        \cup {<<ServiceName, Plain, Plain, Plain, Plain>>}
        \cup {TierRow}

\* a table is its tr rows, the first of them the header row (or, in a table
\* written without one, a data row)
Tables ==
    {NoTable, Table(<<>>)}
        \cup {Table(<<first>> \o rows) : first \in {HeaderRow, MixedRow},
                                         rows \in SeqsUpTo(RowSet, MaxRows)}

SimpleTables == {NoTable, Table(<<HeaderRow, MixedRow>>)}

\* a page with an overview, a benefit table and a contact section
ContactBody == <<P(Intro), H3(<<"phone">>), UL(<<Item>>, FALSE)>>

FullDocument == Document(ContactBody, Table(<<HeaderRow, MixedRow>>))

RaisingDocuments ==
    {Raising(d, k) : d \in {FullDocument, Document(<<>>, Table(<<HeaderRow, MixedRow>>))},
                     k \in 0..MaxAppended}

ParserDocuments ==
    {Document(b, t) : b \in Bodies, t \in SimpleTables}
        \cup {Document(b, t) : b \in SimpleBodies, t \in Tables}
        \cup {Unreadable}
        \cup RaisingDocuments

\* the documents read after the first one
LaterDocuments == {Missing, FullDocument}

\* the documents of the retrieval model: an overview page, a page with a
\* contact section and a page that is a benefit table
CorpusDocuments ==
    {Document(<<P(Intro)>>, NoTable),
     Document(ContactBody, NoTable),
     Document(<<>>, Table(<<HeaderRow, MixedRow>>))}

(***************************************************************************)
(* KnowledgeBaseService.get_chunks_for_user                                *)
(***************************************************************************)
get_chunks_for_user_disjunctive(cs, user_hmo, user_tier) ==
    IF Falsy(user_hmo) /\ Falsy(user_tier) THEN cs
    ELSE SelectSeq(cs, LAMBDA chunk :
            \/ (~Falsy(user_hmo) /\ Contains(chunk.hmos, user_hmo))
            \/ (~Falsy(user_tier) /\ Contains(chunk.tiers, user_tier)))

get_chunks_for_user_or_all(cs, user_hmo, user_tier) ==
    LET filtered_chunks == SelectSeq(cs, LAMBDA chunk :
            /\ Falsy(user_hmo) \/ Contains(chunk.hmos, user_hmo)
            /\ Falsy(user_tier) \/ Contains(chunk.tiers, user_tier))
    IN  IF filtered_chunks = <<>> THEN cs ELSE filtered_chunks

get_chunks_for_user(cs, user_hmo, user_tier) ==
    IF Falsy(user_hmo) /\ Falsy(user_tier) THEN cs
    ELSE SelectSeq(cs, LAMBDA chunk :
            LET hmo_match == Falsy(user_hmo) \/ Contains(chunk.hmos, user_hmo)
                tier_match == Falsy(user_tier) \/ Contains(chunk.tiers, user_tier)
            IN  hmo_match /\ tier_match)

(***************************************************************************)
(* The embedding provider and EmbeddingsService._get_embedding.  Vectors   *)
(* have two coordinates, one of them zero, so that norms are integers.     *)
(* The provider is a function of the text; whether a call fails is the     *)
(* environment's choice.                                                   *)
(***************************************************************************)
ZeroVector == <<0, 0>>

ProviderVector(text) ==
    CASE Occurs("contact", text) -> <<-3, 0>>
      [] Occurs("gold", text) -> <<0, -1>>
      [] Occurs("discount", text) -> <<0, 2>>
      [] OTHER -> <<1, 0>>

get_embedding(text, provider_ok) ==
    IF provider_ok THEN ProviderVector(text) ELSE ZeroVector

Dot(a, b) == a[1] * b[1] + a[2] * b[2]

Norm(a) == CHOOSE r \in 0..(Dot(a, a)) : r * r = Dot(a, a)

\* sklearn's cosine_similarity: a zero norm is replaced by 1 before dividing
cosine_similarity(a, b) ==
    LET na == IF Norm(a) = 0 THEN 1 ELSE Norm(a)
        nb == IF Norm(b) = 0 THEN 1 ELSE Norm(b)
    IN  Dot(a, b) \div (na * nb)

\* dict assignment index[k] = v
Store(index, k, v) == [x \in (DOMAIN index) \cup {k} |-> IF x = k THEN v ELSE index[x]]

RECURSIVE BuildIndexSkippingFailures(_, _, _, _)
BuildIndexSkippingFailures(index, cs, i, fails) ==
    IF i > Len(cs) THEN index
    ELSE BuildIndexSkippingFailures(
             IF i \in fails THEN index
             ELSE Store(index, cs[i].chunk_id, get_embedding(cs[i].content, TRUE)),
             cs, i + 1, fails)

\* the build loop of initialize_knowledge_base from chunk number i on;
\* fails is the set of chunk numbers whose provider call fails
RECURSIVE BuildIndex(_, _, _, _)
BuildIndex(index, cs, i, fails) ==
    IF i > Len(cs) THEN index
    ELSE BuildIndex(Store(index, cs[i].chunk_id, get_embedding(cs[i].content, i \notin fails)),
                    cs, i + 1, fails)

(***************************************************************************)
(* EmbeddingsService.search_similar                                        *)
(***************************************************************************)
\* list.sort(key=score, reverse=True): stable, equal scores keep their order
InsertDescendingBeforeTies(sorted, x) ==
    LET n == Cardinality({i \in 1..Len(sorted) : sorted[i][2] > x[2]})
    IN  SubSeq(sorted, 1, n) \o <<x>> \o SubSeq(sorted, n + 1, Len(sorted))

InsertDescending(sorted, x) ==
    LET n == Cardinality({i \in 1..Len(sorted) : sorted[i][2] >= x[2]})
    IN  SubSeq(sorted, 1, n) \o <<x>> \o SubSeq(sorted, n + 1, Len(sorted))

RECURSIVE SortDescendingFrom(_, _)
SortDescendingFrom(sorted, rest) ==
    IF rest = <<>> THEN sorted
    ELSE SortDescendingFrom(InsertDescending(sorted, Head(rest)), Tail(rest))

SortDescending(s) == SortDescendingFrom(<<>>, s)

SliceToExclusive(s, k) == SubSeq(s, 1, IF k - 1 < Len(s) THEN k - 1 ELSE Len(s))

\* Python's s[:k]
SliceTo(s, k) ==
    IF k >= 0 THEN SubSeq(s, 1, IF k < Len(s) THEN k ELSE Len(s))
    ELSE SubSeq(s, 1, IF Len(s) + k > 0 THEN Len(s) + k ELSE 0)

SimilaritiesUnfiltered(cs, index, query_embedding, user_hmo, user_tier) ==
    LET indexed == SelectSeq(cs, LAMBDA chunk : chunk.chunk_id \in DOMAIN index)
    IN  [i \in 1..Len(indexed) |->
            <<indexed[i], cosine_similarity(query_embedding, index[indexed[i].chunk_id])>>]

SimilaritiesSkippingZero(cs, index, query_embedding, user_hmo, user_tier) ==
    LET relevant_chunks == get_chunks_for_user(cs, user_hmo, user_tier)
        indexed == SelectSeq(relevant_chunks, LAMBDA chunk :
                       /\ chunk.chunk_id \in DOMAIN index
                       /\ index[chunk.chunk_id] # ZeroVector)
    IN  [i \in 1..Len(indexed) |->
            <<indexed[i], cosine_similarity(query_embedding, index[indexed[i].chunk_id])>>]

\* the (chunk, similarity) pairs before sorting
Similarities(cs, index, query_embedding, user_hmo, user_tier) ==
    LET relevant_chunks == get_chunks_for_user(cs, user_hmo, user_tier)
        indexed == SelectSeq(relevant_chunks, LAMBDA chunk : chunk.chunk_id \in DOMAIN index)
    IN  [i \in 1..Len(indexed) |->
            <<indexed[i], cosine_similarity(query_embedding, index[indexed[i].chunk_id])>>]

Ranking(cs, index, query_embedding, user_hmo, user_tier) ==
    SortDescending(Similarities(cs, index, query_embedding, user_hmo, user_tier))

search_similar(cs, index, query_embedding, user_hmo, user_tier, top_k) ==
    SliceTo(Ranking(cs, index, query_embedding, user_hmo, user_tier), top_k)

SortedListRelevantChunks(user_hmo, user_tier) ==
    IF Falsy(user_hmo) /\ Falsy(user_tier) THEN "kb_service.chunks" ELSE "filtered_chunks"

\* the list object that similarities.sort() reorders in place.  The list
\* get_chunks_for_user returns is kb_service.chunks itself when no filter is
\* given, and a new list otherwise; similarities is a list of its own.
SortedList(user_hmo, user_tier) == "similarities"

\* the chunk list a search leaves behind
ChunksAfterSearch(cs, index, query_embedding, user_hmo, user_tier) ==
    IF SortedList(user_hmo, user_tier) = "kb_service.chunks"
    THEN LET sorted == Ranking(cs, index, query_embedding, user_hmo, user_tier)
         IN  [k \in 1..Len(sorted) |-> sorted[k][1]]
    ELSE cs

(***************************************************************************)
(* EmbeddingsService.get_context_for_query                                 *)
(***************************************************************************)
ContextTopK == 10

DefaultContextLength == 2000

\* f"source: {chunk.service_type}\n{chunk.content}\n"
ChunkText(chunk) == <<"source:">> \o chunk.service_type \o chunk.content

RECURSIVE AssembleContextLateCheck(_, _, _, _, _, _)
AssembleContextLateCheck(similar_chunks, k, context_parts, sources, current_length, max_context_length) ==
    IF k > Len(similar_chunks)
    THEN [context_parts |-> context_parts, sources |-> sources]
    ELSE LET chunk == similar_chunks[k][1]
             chunk_text == ChunkText(chunk)
         IN  IF current_length <= max_context_length
             THEN AssembleContextLateCheck(similar_chunks, k + 1,
                      Append(context_parts, chunk_text),
                      IF Contains(sources, chunk.source_file) THEN sources
                      ELSE Append(sources, chunk.source_file),
                      current_length + Len(chunk_text), max_context_length)
             ELSE [context_parts |-> context_parts, sources |-> sources]

RECURSIVE AssembleContextSkippingOverflow(_, _, _, _, _, _)
AssembleContextSkippingOverflow(similar_chunks, k, context_parts, sources, current_length, max_context_length) ==
    IF k > Len(similar_chunks)
    THEN [context_parts |-> context_parts, sources |-> sources]
    ELSE LET chunk == similar_chunks[k][1]
             chunk_text == ChunkText(chunk)
             chunk_length == Len(chunk_text)
         IN  IF current_length + chunk_length <= max_context_length
             THEN AssembleContextSkippingOverflow(similar_chunks, k + 1,
                      Append(context_parts, chunk_text),
                      IF Contains(sources, chunk.source_file) THEN sources
                      ELSE Append(sources, chunk.source_file),
                      current_length + chunk_length, max_context_length)
             ELSE AssembleContextSkippingOverflow(similar_chunks, k + 1,
                      context_parts, sources, current_length, max_context_length)

RECURSIVE AssembleContextAllSources(_, _, _, _, _, _)
AssembleContextAllSources(similar_chunks, k, context_parts, sources, current_length, max_context_length) ==
    IF k > Len(similar_chunks)
    THEN [context_parts |-> context_parts, sources |-> sources]
    ELSE LET chunk == similar_chunks[k][1]
             chunk_text == ChunkText(chunk)
         IN  IF current_length + Len(chunk_text) <= max_context_length
             THEN AssembleContextAllSources(similar_chunks, k + 1,
                      Append(context_parts, chunk_text),
                      Append(sources, chunk.source_file),
                      current_length + Len(chunk_text), max_context_length)
             ELSE [context_parts |-> context_parts, sources |-> sources]

RECURSIVE AssembleContextSourceFirst(_, _, _, _, _, _)
AssembleContextSourceFirst(similar_chunks, k, context_parts, sources, current_length, max_context_length) ==
    IF k > Len(similar_chunks)
    THEN [context_parts |-> context_parts, sources |-> sources]
    ELSE LET chunk == similar_chunks[k][1]
             chunk_text == ChunkText(chunk)
             chunk_length == Len(chunk_text)
             listed == IF Contains(sources, chunk.source_file) THEN sources
                       ELSE Append(sources, chunk.source_file)
         IN  IF current_length + chunk_length <= max_context_length
             THEN AssembleContextSourceFirst(similar_chunks, k + 1,
                      Append(context_parts, chunk_text), listed,
                      current_length + chunk_length, max_context_length)
             ELSE [context_parts |-> context_parts, sources |-> listed]

\* the loop over similar_chunks from pair number k on; stops at the first
\* chunk that does not fit
RECURSIVE AssembleContext(_, _, _, _, _, _)
AssembleContext(similar_chunks, k, context_parts, sources, current_length, max_context_length) ==
    IF k > Len(similar_chunks)
    THEN [context_parts |-> context_parts, sources |-> sources]
    ELSE LET chunk == similar_chunks[k][1]
             chunk_text == ChunkText(chunk)
             chunk_length == Len(chunk_text)
         IN  IF current_length + chunk_length <= max_context_length
             THEN AssembleContext(similar_chunks, k + 1,
                      Append(context_parts, chunk_text),
                      IF Contains(sources, chunk.source_file) THEN sources
                      ELSE Append(sources, chunk.source_file),
                      current_length + chunk_length, max_context_length)
             ELSE [context_parts |-> context_parts, sources |-> sources]

get_context_for_query_in_load_order(cs, index, query_embedding, user_hmo, user_tier, max_context_length) ==
    LET similar_chunks ==
            SliceTo(Similarities(cs, index, query_embedding, user_hmo, user_tier), ContextTopK)
        built == AssembleContext(similar_chunks, 1, <<>>, <<>>, 0, max_context_length)
    IN  [context |-> JoinWith(<<"---">>, built.context_parts), sources |-> built.sources]

get_context_for_query(cs, index, query_embedding, user_hmo, user_tier, max_context_length) ==
    LET similar_chunks ==
            search_similar(cs, index, query_embedding, user_hmo, user_tier, ContextTopK)
        built == AssembleContext(similar_chunks, 1, <<>>, <<>>, 0, max_context_length)
    IN  [context |-> JoinWith(<<"---">>, built.context_parts), sources |-> built.sources]

(***************************************************************************)
(* KnowledgeBaseService.get_summary and EmbeddingsService.get_stats         *)
(***************************************************************************)
get_summary(cs) ==
    [total_chunks |-> Len(cs),
     by_service |-> [st \in {cs[i].service_type : i \in 1..Len(cs)} |->
                        Len(SelectSeq(cs, LAMBDA c : c.service_type = st))],
     by_hmo |-> [h \in Range(HMOS) |-> Len(SelectSeq(cs, LAMBDA c : Contains(c.hmos, h)))],
     by_tier |-> [t \in Range(TIERS) |-> Len(SelectSeq(cs, LAMBDA c : Contains(c.tiers, t)))]]

get_stats(cs, index) ==
    [total_chunks |-> Len(cs),
     embeddings_generated |-> Cardinality(DOMAIN index),
     kb_summary |-> get_summary(cs)]

(***************************************************************************)
(* The calls of the embedding provider (client.embeddings.create) that an  *)
(* operation makes, as the sequence of the texts sent.                     *)
(***************************************************************************)
\* initialize_knowledge_base: _get_embedding(chunk.content) for every chunk
EmbedCallsOfBuild(cs) == [i \in 1..Len(cs) |-> cs[i].content]

\* search_similar: _get_embedding(query)
EmbedCallsOfSearch(query) == <<query>>

\* get_context_for_query: through its call of search_similar
EmbedCallsOfContext(query) == EmbedCallsOfSearch(query)

\* generate_answer: get_context_for_query, then search_similar
EmbedCallsOfAnswer(query) == EmbedCallsOfContext(query) \o EmbedCallsOfSearch(query)

(***************************************************************************)
(* ChatService.generate_answer.  The two retrievals embed the query        *)
(* separately, so each has a query vector of its own; chat_ok says whether *)
(* the chat completion call succeeds.  A content preview is the content    *)
(* (the texts of the model are shorter than the 120 characters it keeps).  *)
(***************************************************************************)
AnswerContextLength == 2000

AnswerTopK == 3

generate_answer(cs, index, context_embedding, matches_embedding, user_hmo, user_tier, chat_ok) ==
    LET retrieved == get_context_for_query(cs, index, context_embedding,
                                           user_hmo, user_tier, AnswerContextLength)
        top_matches == search_similar(cs, index, matches_embedding,
                                      user_hmo, user_tier, AnswerTopK)
        retrieved_chunks == [k \in 1..Len(top_matches) |->
                                [score |-> top_matches[k][2],
                                 content_preview |-> top_matches[k][1].content]]
    IN  IF chat_ok
        THEN [status |-> "answered", answer |-> <<"answer">>,
              sources |-> retrieved.sources,
              context_used |-> Len(retrieved.context) > 0,
              retrieved_chunks |-> retrieved_chunks]
        ELSE [status |-> "error", answer |-> <<"sorry">>,
              sources |-> <<>>, context_used |-> FALSE, retrieved_chunks |-> <<>>]

(***************************************************************************)
(* validation.py and the /chat endpoint of main.py.  A profile is the      *)
(* UserProfile of models/user.py; the HMO and tier names are the labels of *)
(* HMOS and TIERS, "leumit" the fourth fund the intake dialog offers.      *)
(***************************************************************************)
VALID_HMOS == {"maccabi", "meuhedet", "clalit"}

VALID_TIERS == {"gold", "silver", "bronze"}

validate_hmo(hmo) == hmo \in VALID_HMOS

validate_membership_tier(tier) == tier \in VALID_TIERS

validate_age(age) == 0 <= age /\ age <= 120

\* the None of the integer field age
NoAge == -1

UserProfile(first_name, last_name, id_number, gender, age, hmo, hmo_card_number, membership_tier, confirmed) ==
    [first_name |-> first_name, last_name |-> last_name, id_number |-> id_number,
     gender |-> gender, age |-> age, hmo |-> hmo, hmo_card_number |-> hmo_card_number,
     membership_tier |-> membership_tier, confirmed |-> confirmed]

\* the all([...]) of chat and of get_next_question: every field truthy, age not None
RequiredFilled(profile) ==
    /\ ~Falsy(profile.first_name)
    /\ ~Falsy(profile.last_name)
    /\ ~Falsy(profile.id_number)
    /\ ~Falsy(profile.gender)
    /\ profile.age # NoAge
    /\ ~Falsy(profile.hmo)
    /\ ~Falsy(profile.hmo_card_number)
    /\ ~Falsy(profile.membership_tier)

\* the checks of chat that return before the chat service is called
ChatRejects(profile) ==
    \/ ~profile.confirmed /\ ~RequiredFilled(profile)
    \/ ~Falsy(profile.hmo) /\ ~validate_hmo(profile.hmo)
    \/ ~Falsy(profile.membership_tier) /\ ~validate_membership_tier(profile.membership_tier)

\* the response of the first of these checks that fails
ChatRejection(profile) ==
    IF ~profile.confirmed /\ ~RequiredFilled(profile)
    THEN [status |-> "registration_required", message |-> "complete your registration"]
    ELSE IF ~Falsy(profile.hmo) /\ ~validate_hmo(profile.hmo)
    THEN [status |-> "error", message |-> "Invalid HMO"]
    ELSE [status |-> "error", message |-> "Invalid membership tier"]

\* the response chat builds from the result of generate_answer
ChatResponse(result, profile) ==
    IF ~result.context_used /\ result.sources = <<>>
    THEN [status |-> "no_match", sources |-> <<>>, context_used |-> FALSE,
          user_profile_used |-> [hmo |-> profile.hmo,
                                 membership_tier |-> profile.membership_tier]]
    ELSE [status |-> result.status, answer |-> result.answer,
          sources |-> result.sources, context_used |-> result.context_used,
          user_profile_used |-> [hmo |-> profile.hmo,
                                 membership_tier |-> profile.membership_tier]]

chat(cs, index, context_embedding, matches_embedding, profile, chat_ok) ==
    IF ChatRejects(profile) THEN ChatRejection(profile)
    ELSE ChatResponse(generate_answer(cs, index, context_embedding, matches_embedding,
                                      profile.hmo, profile.membership_tier, chat_ok),
                      profile)

(***************************************************************************)
(* openai_client.get_next_question and the /collect_user_info endpoint.    *)
(* A user message is a string; the strings of the model are listed in      *)
(* Messages, and lower(), strip(), isdigit(), len() and int() are defined  *)
(* on them.  A word typed in English carries the prefix "en:", a word      *)
(* without it stands for the Hebrew word.  A question is named by the      *)
(* field it asks for; the wording depends on the language alone.           *)
(***************************************************************************)
\* UserProfile(): the defaults of models/user.py
NewProfile == UserProfile("", "", "", "", NoAge, "", "", "", FALSE)

Lower(m) ==
    CASE m = "en:Female" -> "en:female"
      [] m = "en:Clalit " -> "en:clalit "
      [] m = "en:Clalit" -> "en:clalit"
      [] m = "en:Gold" -> "en:gold"
      [] OTHER -> m

Strip(m) ==
    CASE m = "en:Clalit " -> "en:Clalit"
      [] m = "en:clalit " -> "en:clalit"
      [] m = " " -> ""
      [] OTHER -> m

IsDigit(m) == m \in {"123456789", "0", "30"}

StrLen(m) ==
    CASE m = "123456789" -> 9
      [] m = "0" -> 1
      [] m = "30" -> 2
      [] m = "" -> 0
      [] OTHER -> 4

IntOf(m) ==
    CASE m = "123456789" -> 123456789
      [] m = "0" -> 0
      [] m = "30" -> 30

greeting_patterns == {"en:hi, i want to register", "en:hello", "hi, i want to register",
                      "en:start", "en:begin", "start", "hi", "en:hi"}

confirmation_yes == {"en:yes", "yes", "en:y", "confirm"}

confirmation_no == {"en:no", "no", "en:n"}

\* `not user_profile.age`: None and 0 are both falsy
AgeFalsy(age) == age = NoAge \/ age = 0

\* the branch `elif not user_profile.hmo`
AssignHmo(profile, user_message) ==
    LET message_lower == Strip(Lower(user_message))
    IN  IF message_lower \in {"maccabi", "en:maccabi"} THEN [profile EXCEPT !.hmo = "maccabi"]
        ELSE IF message_lower \in {"clalit", "en:clalit"} THEN [profile EXCEPT !.hmo = "clalit"]
        ELSE IF message_lower \in {"meuhedet", "en:meuhedet"}
        THEN [profile EXCEPT !.hmo = "meuhedet"]
        ELSE IF message_lower \in {"leumit", "en:leumit"} THEN [profile EXCEPT !.hmo = "leumit"]
        ELSE profile

\* the branch `elif not user_profile.membership_tier`
AssignTier(profile, user_message) ==
    LET message_lower == Strip(Lower(user_message))
    IN  IF message_lower \in {"gold", "en:gold"}
        THEN [profile EXCEPT !.membership_tier = "gold"]
        ELSE IF message_lower \in {"silver", "en:silver"}
        THEN [profile EXCEPT !.membership_tier = "silver"]
        ELSE IF message_lower \in {"bronze", "en:bronze"}
        THEN [profile EXCEPT !.membership_tier = "bronze"]
        ELSE profile

\* the if/elif chain that stores the message in one field: the first branch
\* whose condition holds is taken, whether or not it then assigns
AssignField(profile, user_message) ==
    IF Falsy(profile.first_name)
    THEN [profile EXCEPT !.first_name = Strip(user_message)]
    ELSE IF Falsy(profile.last_name)
    THEN [profile EXCEPT !.last_name = Strip(user_message)]
    ELSE IF Falsy(profile.id_number) /\ IsDigit(user_message) /\ StrLen(user_message) = 9
    THEN [profile EXCEPT !.id_number = Strip(user_message)]
    ELSE IF Falsy(profile.gender)
            /\ Lower(user_message) \in {"en:male", "en:female", "male", "female", "en:m", "en:f"}
    THEN IF Lower(user_message) \in {"en:male", "male", "en:m"}
         THEN [profile EXCEPT !.gender = "Male"]
         ELSE [profile EXCEPT !.gender = "Female"]
    ELSE IF AgeFalsy(profile.age) /\ IsDigit(user_message)
    THEN IF validate_age(IntOf(user_message))
         THEN [profile EXCEPT !.age = IntOf(user_message)]
         ELSE profile
    ELSE IF Falsy(profile.hmo)
    THEN AssignHmo(profile, user_message)
    ELSE IF Falsy(profile.hmo_card_number) /\ IsDigit(user_message) /\ StrLen(user_message) = 9
    THEN [profile EXCEPT !.hmo_card_number = Strip(user_message)]
    ELSE IF Falsy(profile.membership_tier)
    THEN AssignTier(profile, user_message)
    ELSE profile

\* the first part of get_next_question: the profile after the message is stored
Assigned(profile, user_message) ==
    IF Strip(user_message) = "" \/ Lower(Strip(user_message)) \in greeting_patterns
    THEN profile
    ELSE AssignField(profile, user_message)

\* the sequence of `if not user_profile.<field>` tests that picks the question
NextField(profile) ==
    IF Falsy(profile.first_name) THEN "first_name"
    ELSE IF Falsy(profile.last_name) THEN "last_name"
    ELSE IF Falsy(profile.id_number) THEN "id_number"
    ELSE IF Falsy(profile.gender) THEN "gender"
    ELSE IF AgeFalsy(profile.age) THEN "age"
    ELSE IF Falsy(profile.hmo) THEN "hmo"
    ELSE IF Falsy(profile.hmo_card_number) THEN "hmo_card_number"
    ELSE IF Falsy(profile.membership_tier) THEN "membership_tier"
    ELSE "summary"

\* the profile as get_next_question leaves it, and the question it returns
get_next_question(profile, user_message) ==
    LET assigned == Assigned(profile, user_message)
        answer == Lower(Strip(user_message))
    IN  IF RequiredFilled(assigned) /\ ~assigned.confirmed /\ answer \in confirmation_yes
        THEN [user_profile |-> [assigned EXCEPT !.confirmed = TRUE],
              question |-> "registration_complete"]
        ELSE IF RequiredFilled(assigned) /\ ~assigned.confirmed /\ answer \in confirmation_no
        THEN [user_profile |-> assigned, question |-> "which_field"]
        ELSE [user_profile |-> assigned, question |-> NextField(assigned)]

\* the validations of collect_user_info that return before get_next_question
CollectRejects(profile) ==
    \/ ~Falsy(profile.id_number) /\ ~(IsDigit(profile.id_number) /\ StrLen(profile.id_number) = 9)
    \/ ~AgeFalsy(profile.age) /\ ~validate_age(profile.age)
    \/ ~Falsy(profile.hmo) /\ ~validate_hmo(profile.hmo)
    \/ ~Falsy(profile.membership_tier) /\ ~validate_membership_tier(profile.membership_tier)

CollectRejection(profile) ==
    IF ~Falsy(profile.id_number) /\ ~(IsDigit(profile.id_number) /\ StrLen(profile.id_number) = 9)
    THEN [status |-> "error", message |-> "Invalid ID number"]
    ELSE IF ~AgeFalsy(profile.age) /\ ~validate_age(profile.age)
    THEN [status |-> "error", message |-> "Invalid age"]
    ELSE IF ~Falsy(profile.hmo) /\ ~validate_hmo(profile.hmo)
    THEN [status |-> "error", message |-> "Invalid HMO"]
    ELSE [status |-> "error", message |-> "Invalid membership tier"]

collect_user_info(profile, message) ==
    IF CollectRejects(profile) THEN CollectRejection(profile)
    ELSE [status |-> "in_progress",
          next_question |-> get_next_question(profile, message).question,
          user_profile |-> get_next_question(profile, message).user_profile]

(***************************************************************************)
(* Inputs of the operations.                                               *)
(***************************************************************************)
HmoFilters == {None, "", "maccabi", "clalit", "leumit"}

TierFilters == {None, "", "gold", "silver", "platinum"}

UserHmos == {None, "meuhedet"}

UserTiers == {None, "silver"}

Queries == {<<"discount">>, <<"overview">>}

Budgets == {12 * k : k \in 0..MaxBudgetSteps} \cup {SmallBudget}

WideBudgets == {MidBudget, DefaultContextLength}

RECURSIVE SubsetsUpTo(_, _)
SubsetsUpTo(S, k) ==
    IF k = 0 THEN {{}}
    ELSE LET smaller == SubsetsUpTo(S, k - 1)
         IN  smaller \cup {s \cup {x} : s \in smaller, x \in S}

\* how a call came back: with a value, or with an exception raised to the caller
Returned(value) == [raised |-> FALSE, value |-> value]

Raised == [raised |-> TRUE, value |-> <<>>]

NoValue == Returned(<<>>)

NoArgs == [none |-> TRUE]

(***************************************************************************)
(* The requests of the web application and the positions of a handler.     *)
(***************************************************************************)
Requests == 1..NumRequests

NoRequest == 0

Endpoints == {"chat", "health", "kb_stats"}

Pending == [endpoint |-> "", at |-> "pending", i |-> 0]

(***************************************************************************)
(* State machine of one EmbeddingsService with its KnowledgeBaseService.   *)
(***************************************************************************)
Fresh ==
    /\ chunks = <<>>
    /\ chunk_embeddings = <<>>
    /\ loads = 0
    /\ builds = 0
    /\ op = "idle"
    /\ args = NoArgs
    /\ ret = NoValue
    /\ embedded = <<>>
    /\ embeddings_service = None
    /\ pc = [r \in Requests |-> Pending]
    /\ running = NoRequest
    /\ user_profile = NewProfile

Init ==
    /\ disk \in [Range(Files) -> CorpusDocuments]
    /\ Fresh

ParserInit ==
    /\ disk \in {[f \in Range(Files) |->
                    IF f = Files[1] THEN d ELSE IF f = Files[2] THEN e ELSE Missing] :
                    d \in ParserDocuments, e \in LaterDocuments}
    /\ Fresh

\* KnowledgeBaseService.load_knowledge_base
LoadKnowledgeBase ==
    /\ op = "idle"
    /\ loads < MaxLoads
    /\ chunks' = chunks \o LoadedChunks(disk)
    /\ loads' = loads + 1
    /\ op' = "load_knowledge_base"
    /\ args' = [before |-> chunks]
    /\ ret' = NoValue
    /\ embedded' = <<>>
    /\ UNCHANGED <<user_profile, disk, chunk_embeddings, builds>>
    /\ UNCHANGED service

\* EmbeddingsService.initialize_knowledge_base; its callers
\* (get_embeddings_service, test_embeddings_search) call it once per instance
InitializeKnowledgeBase ==
    /\ op = "idle"
    /\ loads < MaxLoads
    /\ builds = 0
    /\ LET loaded == chunks \o LoadedChunks(disk)
       IN  \E fails \in SubsetsUpTo(1..Len(loaded), MaxFail) :
             /\ chunks' = loaded
             /\ chunk_embeddings' = BuildIndex(chunk_embeddings, loaded, 1, fails)
             /\ args' = [before |-> chunks, fails |-> fails]
    /\ loads' = loads + 1
    /\ builds' = builds + 1
    /\ op' = "initialize_knowledge_base"
    /\ ret' = NoValue
    /\ embedded' = EmbedCallsOfBuild(chunks')
    /\ UNCHANGED <<user_profile, disk>>
    /\ UNCHANGED service

\* KnowledgeBaseService.get_chunks_for_user
GetChunksForUser ==
    /\ op = "idle"
    /\ \E user_hmo \in HmoFilters, user_tier \in TierFilters :
         /\ args' = [user_hmo |-> user_hmo, user_tier |-> user_tier]
         /\ ret' = Returned(get_chunks_for_user(chunks, user_hmo, user_tier))
    /\ op' = "get_chunks_for_user"
    /\ embedded' = <<>>
    /\ UNCHANGED <<user_profile, disk, chunks, chunk_embeddings, loads, builds>>
    /\ UNCHANGED service

\* EmbeddingsService.search_similar
SearchSimilar ==
    /\ op = "idle"
    /\ \E query \in Queries, provider_ok \in BOOLEAN, user_hmo \in UserHmos,
          user_tier \in UserTiers, top_k \in 0..MaxTopK :
         /\ args' = [query |-> query, provider_ok |-> provider_ok, user_hmo |-> user_hmo,
                     user_tier |-> user_tier, top_k |-> top_k]
         /\ ret' = Returned(search_similar(chunks, chunk_embeddings,
                                           get_embedding(query, provider_ok),
                                           user_hmo, user_tier, top_k))
         /\ chunks' = ChunksAfterSearch(chunks, chunk_embeddings,
                                        get_embedding(query, provider_ok),
                                        user_hmo, user_tier)
    /\ op' = "search_similar"
    /\ embedded' = EmbedCallsOfSearch(args'.query)
    /\ UNCHANGED <<user_profile, disk, chunk_embeddings, loads, builds>>
    /\ UNCHANGED service

\* EmbeddingsService.get_context_for_query
GetContextForQuery ==
    /\ op = "idle"
    /\ \E query \in Queries, provider_ok \in BOOLEAN, user_hmo \in UserHmos,
          user_tier \in UserTiers, max_context_length \in Budgets :
         /\ args' = [query |-> query, provider_ok |-> provider_ok, user_hmo |-> user_hmo,
                     user_tier |-> user_tier, max_context_length |-> max_context_length]
         /\ ret' = Returned(get_context_for_query(chunks, chunk_embeddings,
                                                  get_embedding(query, provider_ok),
                                                  user_hmo, user_tier, max_context_length))
         /\ chunks' = ChunksAfterSearch(chunks, chunk_embeddings,
                                        get_embedding(query, provider_ok),
                                        user_hmo, user_tier)
    /\ op' = "get_context_for_query"
    /\ embedded' = EmbedCallsOfContext(args'.query)
    /\ UNCHANGED <<user_profile, disk, chunk_embeddings, loads, builds>>
    /\ UNCHANGED service

\* EmbeddingsService.get_context_for_query with the budgets of WideBudgets,
\* among them the default of max_context_length
GetContextForQueryWide ==
    /\ op = "idle"
    /\ \E query \in Queries, provider_ok \in BOOLEAN, user_hmo \in UserHmos,
          user_tier \in UserTiers, max_context_length \in WideBudgets :
         /\ args' = [query |-> query, provider_ok |-> provider_ok, user_hmo |-> user_hmo,
                     user_tier |-> user_tier, max_context_length |-> max_context_length]
         /\ ret' = Returned(get_context_for_query(chunks, chunk_embeddings,
                                                  get_embedding(query, provider_ok),
                                                  user_hmo, user_tier, max_context_length))
         /\ chunks' = ChunksAfterSearch(chunks, chunk_embeddings,
                                        get_embedding(query, provider_ok),
                                        user_hmo, user_tier)
    /\ op' = "get_context_for_query"
    /\ embedded' = EmbedCallsOfContext(args'.query)
    /\ UNCHANGED <<user_profile, disk, chunk_embeddings, loads, builds>>
    /\ UNCHANGED service

\* EmbeddingsService.get_stats
GetStats ==
    /\ op = "idle"
    /\ op' = "get_stats"
    /\ args' = NoArgs
    /\ ret' = Returned(get_stats(chunks, chunk_embeddings))
    /\ embedded' = <<>>
    /\ UNCHANGED <<user_profile, disk, chunks, chunk_embeddings, loads, builds>>
    /\ UNCHANGED service

\* ChatService.generate_answer on the built service
GenerateAnswer ==
    /\ op = "idle"
    /\ builds = 1
    /\ \E query \in Queries, user_hmo \in UserHmos, user_tier \in UserTiers,
          context_ok \in BOOLEAN, matches_ok \in BOOLEAN, chat_ok \in BOOLEAN :
         /\ args' = [query |-> query, user_hmo |-> user_hmo, user_tier |-> user_tier,
                     context_ok |-> context_ok, matches_ok |-> matches_ok,
                     chat_ok |-> chat_ok]
         /\ ret' = Returned(generate_answer(chunks, chunk_embeddings,
                                            get_embedding(query, context_ok),
                                            get_embedding(query, matches_ok),
                                            user_hmo, user_tier, chat_ok))
         /\ chunks' = ChunksAfterSearch(chunks, chunk_embeddings,
                                        get_embedding(query, context_ok),
                                        user_hmo, user_tier)
         /\ embedded' = EmbedCallsOfAnswer(query)
    /\ op' = "generate_answer"
    /\ UNCHANGED <<user_profile, disk, chunk_embeddings, loads, builds>>
    /\ UNCHANGED service

\* the profiles a /chat request can carry: any client can send any profile
ChatProfiles ==
    {UserProfile(first_name, "levi", "123456789", "Female", age, hmo, "987654321",
                 membership_tier, confirmed) :
        first_name \in {"", "dana"}, age \in {NoAge, 30},
        hmo \in {"", "meuhedet", "leumit"},
        membership_tier \in {"", "silver", "platinum"},
        confirmed \in BOOLEAN}

\* the /chat endpoint on the built service
Chat ==
    /\ op = "idle"
    /\ builds = 1
    /\ \E query \in Queries, profile \in ChatProfiles,
          context_ok \in BOOLEAN, matches_ok \in BOOLEAN, chat_ok \in BOOLEAN :
         /\ args' = [query |-> query, user_profile |-> profile,
                     context_ok |-> context_ok, matches_ok |-> matches_ok,
                     chat_ok |-> chat_ok]
         /\ ret' = Returned(chat(chunks, chunk_embeddings,
                                 get_embedding(query, context_ok),
                                 get_embedding(query, matches_ok),
                                 profile, chat_ok))
         /\ IF ChatRejects(profile)
            THEN /\ chunks' = chunks
                 /\ embedded' = <<>>
            ELSE /\ chunks' = ChunksAfterSearch(chunks, chunk_embeddings,
                                                get_embedding(query, context_ok),
                                                profile.hmo,
                                                profile.membership_tier)
                 /\ embedded' = EmbedCallsOfAnswer(query)
    /\ op' = "chat"
    /\ UNCHANGED <<user_profile, disk, chunk_embeddings, loads, builds>>
    /\ UNCHANGED service

\* what the user types into the registration form
Messages ==
    {"", "hi", "dana", "123456789", "en:Female", "0", "30", "en:Clalit ", "leumit",
     "en:Gold", "yes"}

\* the /collect_user_info endpoint: the client sends the profile it holds and
\* keeps the profile of the response (an error response carries none)
CollectUserInfo ==
    /\ op = "idle"
    /\ \E message \in Messages :
         /\ args' = [message |-> message, user_profile |-> user_profile]
         /\ ret' = Returned(collect_user_info(user_profile, message))
         /\ user_profile' = IF CollectRejects(user_profile) THEN user_profile
                            ELSE get_next_question(user_profile, message).user_profile
    /\ op' = "collect_user_info"
    /\ embedded' = <<>>
    /\ UNCHANGED <<disk, chunks, chunk_embeddings, loads, builds>>
    /\ UNCHANGED service

\* the caller takes the result and goes on to its next call
Return ==
    /\ op # "idle"
    /\ op' = "idle"
    /\ args' = NoArgs
    /\ ret' = NoValue
    /\ embedded' = <<>>
    /\ UNCHANGED <<user_profile, disk, chunks, chunk_embeddings, loads, builds>>
    /\ UNCHANGED service

Next ==
    \/ LoadKnowledgeBase
    \/ InitializeKnowledgeBase
    \/ GetChunksForUser
    \/ SearchSimilar
    \/ GetContextForQuery
    \/ GetStats
    \/ Return

Spec == Init /\ [][Next]_vars

\* context assembly alone, on more budgets
ContextNext ==
    \/ LoadKnowledgeBase
    \/ InitializeKnowledgeBase
    \/ GetContextForQuery
    \/ GetContextForQueryWide
    \/ Return

ContextSpec == Init /\ [][ContextNext]_vars

\* the registration dialog of one client
IntakeNext == CollectUserInfo \/ Return

IntakeInit ==
    /\ disk = [f \in Range(Files) |-> Missing]
    /\ Fresh

IntakeSpec == IntakeInit /\ [][IntakeNext]_vars

\* the chat service on a service that is built first
ChatNext == InitializeKnowledgeBase \/ GenerateAnswer \/ Chat \/ Return

ChatSpec == Init /\ [][ChatNext]_vars

(***************************************************************************)
(* The web application: requests to /chat, /health and /kb_stats, whose    *)
(* handlers obtain the service from get_embeddings_service.  The handlers  *)
(* are coroutines (async def) that never await, so the event loop runs a   *)
(* handler from its first statement to its return before it starts the     *)
(* next one.  The steps of a handler are the statements of                 *)
(* get_embeddings_service and of initialize_knowledge_base, one iteration  *)
(* of the build loop at a time.                                            *)
(***************************************************************************)
At(r, position) == pc[r].at = position

ScheduledPreemptively(r) == TRUE

\* whether the event loop lets request r take its next step
Scheduled(r) == IF At(r, "pending") THEN running = NoRequest ELSE running = r

\* the handler starts and runs up to its call of get_embeddings_service
StartRequest ==
    \E r \in Requests, endpoint \in Endpoints :
        /\ At(r, "pending")
        /\ Scheduled(r)
        /\ pc' = [pc EXCEPT ![r] = [endpoint |-> endpoint,
                                    at |-> "get_embeddings_service", i |-> 0]]
        /\ running' = r
        /\ UNCHANGED <<user_profile, disk, chunks, chunk_embeddings, loads, builds, op, args, ret,
                       embedded, embeddings_service>>

\* get_embeddings_service: the test of the global and, when it is None, the
\* assignment of a new EmbeddingsService to it
GetOrCreate ==
    \E r \in Requests :
        /\ At(r, "get_embeddings_service")
        /\ Scheduled(r)
        /\ IF embeddings_service = None
           THEN /\ embeddings_service' = "EmbeddingsService"
                /\ chunks' = <<>>
                /\ chunk_embeddings' = <<>>
                /\ pc' = [pc EXCEPT ![r].at = "initialize_knowledge_base"]
           ELSE /\ pc' = [pc EXCEPT ![r].at = "serving"]
                /\ UNCHANGED <<embeddings_service, chunks, chunk_embeddings>>
        /\ UNCHANGED <<user_profile, disk, loads, builds, op, args, ret, embedded, running>>

\* initialize_knowledge_base up to the build loop
LoadStep ==
    \E r \in Requests :
        /\ At(r, "initialize_knowledge_base")
        /\ Scheduled(r)
        /\ chunks' = chunks \o LoadedChunks(disk)
        /\ loads' = loads + 1
        /\ pc' = [pc EXCEPT ![r].at = "build", ![r].i = 1]
        /\ UNCHANGED <<user_profile, disk, chunk_embeddings, builds, op, args, ret, embedded,
                       embeddings_service, running>>

\* one iteration of the build loop; at most MaxFail provider calls fail
BuildStep ==
    \E r \in Requests, provider_ok \in BOOLEAN :
        /\ At(r, "build")
        /\ Scheduled(r)
        /\ pc[r].i <= Len(chunks)
        /\ provider_ok \/ Cardinality({k \in DOMAIN chunk_embeddings :
                                          chunk_embeddings[k] = ZeroVector}) < MaxFail
        /\ chunk_embeddings' = Store(chunk_embeddings, chunks[pc[r].i].chunk_id,
                                     get_embedding(chunks[pc[r].i].content, provider_ok))
        /\ embedded' = Append(embedded, chunks[pc[r].i].content)
        /\ pc' = [pc EXCEPT ![r].i = @ + 1]
        /\ UNCHANGED <<user_profile, disk, chunks, loads, builds, op, args, ret,
                       embeddings_service, running>>

\* the build loop ends; initialize_knowledge_base and get_embeddings_service return
BuildDone ==
    \E r \in Requests :
        /\ At(r, "build")
        /\ Scheduled(r)
        /\ pc[r].i > Len(chunks)
        /\ builds' = builds + 1
        /\ pc' = [pc EXCEPT ![r].at = "serving"]
        /\ UNCHANGED <<user_profile, disk, chunks, chunk_embeddings, loads, op, args, ret, embedded,
                       embeddings_service, running>>

\* what a handler reads from the service it obtained
Served(endpoint, query) ==
    CASE endpoint = "health" ->
             [knowledge_base |-> Len(chunks) > 0,
              embeddings |-> Cardinality(DOMAIN chunk_embeddings) > 0]
      [] endpoint = "kb_stats" -> get_stats(chunks, chunk_embeddings)
      [] OTHER -> generate_answer(chunks, chunk_embeddings,
                                  get_embedding(query, TRUE), get_embedding(query, TRUE),
                                  None, None, TRUE)

\* the rest of the handler: it uses the service and returns
Serve ==
    \E r \in Requests, query \in Queries :
        /\ At(r, "serving")
        /\ Scheduled(r)
        /\ op' = pc[r].endpoint
        /\ args' = [query |-> query]
        /\ ret' = Returned(Served(pc[r].endpoint, query))
        /\ embedded' = IF pc[r].endpoint = "chat" THEN EmbedCallsOfAnswer(query) ELSE <<>>
        /\ pc' = [pc EXCEPT ![r].at = "done"]
        /\ running' = NoRequest
        /\ UNCHANGED <<user_profile, disk, chunks, chunk_embeddings, loads, builds, embeddings_service>>

ServiceNext ==
    \/ StartRequest
    \/ GetOrCreate
    \/ LoadStep
    \/ BuildStep
    \/ BuildDone
    \/ Serve

ServiceSpec == Init /\ [][ServiceNext]_vars

\* the parser alone, on the full range of documents
ParserNext == LoadKnowledgeBase \/ Return

ParserSpec == ParserInit /\ [][ParserNext]_vars

(***************************************************************************)
(* Vocabulary of the properties.                                           *)
(***************************************************************************)
Given(v) == v # None /\ v # ""

Entitled(chunk, user_hmo, user_tier) ==
    /\ Given(user_hmo) => user_hmo \in Range(chunk.hmos)
    /\ Given(user_tier) => user_tier \in Range(chunk.tiers)

\* the k-th smallest element of a set of numbers
KthOf(S, k) == CHOOSE i \in S : Cardinality({j \in S : j < i}) = k - 1

\* the elements of s at the positions in S, in increasing order of position
Restrict(s, S) == [k \in 1..Cardinality(S) |-> s[KthOf(S, k)]]

\* t arises from s by deleting elements
RECURSIVE IsSubsequence(_, _)
IsSubsequence(t, s) ==
    IF t = <<>> THEN TRUE
    ELSE IF s = <<>> THEN FALSE
    ELSE IF Head(t) = Head(s) THEN IsSubsequence(Tail(t), Tail(s))
    ELSE IsSubsequence(t, Tail(s))

RECURSIVE SumLen(_)
SumLen(ss) == IF ss = <<>> THEN 0 ELSE Len(Head(ss)) + SumLen(Tail(ss))

IsRowChunk(chunk) == Len(chunk.chunk_id) > 2

IsHeaderChunk(chunk) == chunk.chunk_id = <<chunk.source_file, "header">>

IsContactChunk(chunk) == chunk.chunk_id = <<chunk.source_file, "contact">>

\* the chunks the last load_knowledge_base or initialize_knowledge_base appended
Appended == SubSeq(chunks, Len(args.before) + 1, Len(chunks))

(***************************************************************************)
(* C1: get_chunks_for_user(H, T) returns exactly the chunks whose hmos     *)
(* contain H (when H is given) and whose tiers contain T (when T is        *)
(* given), in load order; with both filters absent it returns the whole    *)
(* chunk list.                                                             *)
(***************************************************************************)
C1_FilterExact ==
    op = "get_chunks_for_user" =>
        LET passing == {i \in 1..Len(chunks) :
                            Entitled(chunks[i], args.user_hmo, args.user_tier)}
        IN  /\ ret.value = Restrict(chunks, passing)
            /\ (~Given(args.user_hmo) /\ ~Given(args.user_tier)) => ret.value = chunks

C1_Witness ==
    /\ op = "get_chunks_for_user"
    /\ args.user_hmo = "maccabi"
    /\ args.user_tier = "gold"
    /\ Len(ret.value) >= 2
    /\ Len(ret.value) < Len(chunks)
    /\ \E i \in 1..Len(chunks) : chunks[i].hmos = <<"clalit">> /\ "gold" \in Range(chunks[i].tiers)

(***************************************************************************)
(* C2: with a user HMO and a user tier given, every chunk search_similar   *)
(* returns, and every chunk whose text or source file enters the result of *)
(* get_context_for_query, lists that HMO and that tier.                    *)
(***************************************************************************)
\* the chunk texts a context string is made of
SplitContext(context, current) ==
    LET seps == {i \in 1..Len(context) : context[i] = "---"}
        parts == Cardinality(seps) + 1
    IN  IF context = <<>> THEN (IF current = <<>> THEN <<>> ELSE <<current>>)
        ELSE [k \in 1..parts |->
                LET lo == IF k = 1 THEN 0 ELSE KthOf(seps, k - 1)
                    hi == IF k = parts THEN Len(context) + 1 ELSE KthOf(seps, k)
                IN  (IF k = 1 THEN current ELSE <<>>) \o SubSeq(context, lo + 1, hi - 1)]

IncludedTexts == SplitContext(ret.value.context, <<>>)

C2_OnlyEntitledChunks ==
    /\ (op = "search_similar" /\ Given(args.user_hmo) /\ Given(args.user_tier)) =>
          \A k \in 1..Len(ret.value) :
              /\ args.user_hmo \in Range(ret.value[k][1].hmos)
              /\ args.user_tier \in Range(ret.value[k][1].tiers)
    /\ (op = "get_context_for_query" /\ Given(args.user_hmo) /\ Given(args.user_tier)) =>
          LET included == Range(IncludedTexts)
          IN  /\ \A i \in 1..Len(chunks) :
                     ChunkText(chunks[i]) \in included =>
                         /\ args.user_hmo \in Range(chunks[i].hmos)
                         /\ args.user_tier \in Range(chunks[i].tiers)
              /\ \A f \in Range(ret.value.sources) :
                     \E i \in 1..Len(chunks) :
                         /\ chunks[i].source_file = f
                         /\ ChunkText(chunks[i]) \in included
                         /\ args.user_hmo \in Range(chunks[i].hmos)
                         /\ args.user_tier \in Range(chunks[i].tiers)

C2_Witness ==
    /\ op = "get_context_for_query"
    /\ args.user_hmo = "meuhedet"
    /\ args.user_tier = "silver"
    /\ Len(IncludedTexts) >= 2
    /\ \E i \in 1..Len(chunks) :
           /\ chunks[i].hmos = <<"meuhedet">>
           /\ "silver" \notin Range(chunks[i].tiers)
           /\ chunks[i].chunk_id \in DOMAIN chunk_embeddings
    /\ \E i \in 1..Len(chunks) : chunks[i].hmos = <<"maccabi">>

(***************************************************************************)
(* C3: every chunk the parser appends (header, row or contact chunk) has a *)
(* non-empty hmos list and a non-empty tiers list.                         *)
(***************************************************************************)
C3_EntitlementsNonEmpty ==
    \A i \in 1..Len(chunks) : chunks[i].hmos # <<>> /\ chunks[i].tiers # <<>>

C3_Witness ==
    /\ op = "load_knowledge_base"
    /\ \E i \in 1..Len(chunks) : IsHeaderChunk(chunks[i])
    /\ \E i \in 1..Len(chunks) : IsContactChunk(chunks[i])
    /\ \E i \in 1..Len(chunks) :
           /\ IsRowChunk(chunks[i])
           /\ \A t \in Range(TIERS) : ~Occurs(t, chunks[i].content)
           /\ chunks[i].tiers = TIERS

C5_QueryFailurePropagates ==
    (op \in {"search_similar", "get_context_for_query"} /\ ~args.provider_ok) => ret.raised

(***************************************************************************)
(* C6: the list search_similar returns is sorted by descending score, and  *)
(* returned chunks of equal score keep the relative order they have in the *)
(* knowledge base's chunk list.                                            *)
(***************************************************************************)
C6_StableDescending ==
    op = "search_similar" =>
        /\ \A a \in 1..Len(ret.value), b \in 1..Len(ret.value) :
               a < b => ret.value[a][2] >= ret.value[b][2]
        /\ \A k \in 1..Len(ret.value) :
               LET tied == SelectSeq(ret.value, LAMBDA p : p[2] = ret.value[k][2])
               IN  IsSubsequence([t \in 1..Len(tied) |-> tied[t][1]], chunks)

C6_Witness ==
    /\ op = "search_similar"
    /\ Len(ret.value) >= 3
    /\ ret.value[1][2] > ret.value[3][2]
    /\ \E a \in 1..Len(ret.value), b \in 1..Len(ret.value) :
           /\ a < b
           /\ ret.value[a][2] = ret.value[b][2]
           /\ ret.value[a][1] # ret.value[b][1]
    \* the ranking moved a chunk in front of one loaded before it
    /\ ~IsSubsequence([t \in 1..Len(ret.value) |-> ret.value[t][1]], chunks)

(***************************************************************************)
(* C7: for top_k = K >= 0 search_similar returns exactly min(K, n) pairs,  *)
(* n the number of entitlement-filtered chunks with an index entry, and    *)
(* they are the first min(K, n) pairs of the full ranking; no chunk is     *)
(* dropped for a low similarity.                                           *)
(***************************************************************************)
IndexedPassing ==
    {i \in 1..Len(chunks) :
        /\ Entitled(chunks[i], args.user_hmo, args.user_tier)
        /\ chunks[i].chunk_id \in DOMAIN chunk_embeddings}

C7_TopKCount ==
    op = "search_similar" =>
        LET n == Cardinality(IndexedPassing)
            m == IF args.top_k < n THEN args.top_k ELSE n
            full == Ranking(chunks, chunk_embeddings,
                            get_embedding(args.query, args.provider_ok),
                            args.user_hmo, args.user_tier)
        IN  /\ Len(ret.value) = m
            /\ Len(full) = n
            /\ ret.value = SubSeq(full, 1, m)

C7_Witness ==
    /\ op = "search_similar"
    /\ args.top_k >= 2
    /\ Cardinality(IndexedPassing) > args.top_k
    /\ Len(ret.value) = args.top_k
    /\ ret.value[args.top_k][2] < 0

(***************************************************************************)
(* C8: the word counts of the chunk texts get_context_for_query includes   *)
(* add up to at most max_context_length, and every included chunk text is  *)
(* there whole.                                                            *)
(***************************************************************************)
C8_ContextWithinBudget ==
    op = "get_context_for_query" =>
        LET included == IncludedTexts
        IN  /\ SumLen(included) <= args.max_context_length
            /\ \A k \in 1..Len(included) :
                   \E i \in 1..Len(chunks) : included[k] = ChunkText(chunks[i])

C8_Witness ==
    /\ op = "get_context_for_query"
    /\ Len(IncludedTexts) >= 1
    /\ SumLen(IncludedTexts) = args.max_context_length
    /\ Cardinality(IndexedPassing) > Len(IncludedTexts)

(***************************************************************************)
(* C9: the source list of get_context_for_query has no duplicate, lists    *)
(* the source files in the order of their first occurrence among the       *)
(* included chunks, and holds the source file of every included chunk and  *)
(* of no other chunk.                                                      *)
(***************************************************************************)
\* the file a chunk text comes from (the text names the file's service type)
SourceOfText(text) ==
    CHOOSE f \in Range(Files) :
        \E i \in 1..Len(chunks) : ChunkText(chunks[i]) = text /\ chunks[i].source_file = f

IncludedSources == [k \in 1..Len(IncludedTexts) |-> SourceOfText(IncludedTexts[k])]

FirstIndex(s, x) == CHOOSE i \in 1..Len(s) : s[i] = x /\ \A j \in 1..(i - 1) : s[j] # x

C9_SourcesDeduplicated ==
    op = "get_context_for_query" =>
        LET sources == ret.value.sources
            included == IncludedSources
        IN  /\ \A a \in 1..Len(sources), b \in 1..Len(sources) :
                   a # b => sources[a] # sources[b]
            /\ Range(sources) = Range(included)
            /\ \A a \in 1..Len(sources), b \in 1..Len(sources) :
                   a < b => FirstIndex(included, sources[a]) < FirstIndex(included, sources[b])

C9_Witness ==
    /\ op = "get_context_for_query"
    /\ Len(IncludedTexts) >= 3
    /\ ret.value.sources = <<Files[2], Files[1]>>
    /\ IncludedSources[1] = IncludedSources[2]

(***************************************************************************)
(* C10: the row chunks of a document are 3 per table data row with at      *)
(* least 4 cells: one chunk per HMO, entitled to that HMO alone; a data    *)
(* row with fewer than 4 cells yields no chunk and leaves the chunks of    *)
(* the other rows as they are.                                             *)
(***************************************************************************)
DataRows(doc) ==
    IF doc.table.found /\ doc.table.trs # <<>> THEN Tail(doc.table.trs) ELSE <<>>

FullRows(doc) == {r \in 1..Len(DataRows(doc)) : Len(DataRows(doc)[r]) >= 4}

C10_ThreeChunksPerFullRow ==
    op = "load_knowledge_base" =>
        \A f \in Range(Files) :
            (disk[f].exists /\ disk[f].readable /\ ~disk[f].raises) =>
                LET row_chunks == SelectSeq(Appended,
                                      LAMBDA c : IsRowChunk(c) /\ c.source_file = f)
                    full == FullRows(disk[f])
                IN  /\ Len(row_chunks) = 3 * Cardinality(full)
                    /\ \A k \in 1..Cardinality(full), h \in 1..3 :
                           LET r == KthOf(full, k)
                               chunk == row_chunks[3 * (k - 1) + h]
                           IN  /\ chunk.hmos = <<HMOS[h]>>
                               /\ chunk.chunk_id = <<f>> \o DataRows(disk[f])[r][1]
                                                       \o <<HMOS[h], ToString(r - 1)>>
                               /\ chunk.content =
                                      extract_service_type(f) \o <<"-">>
                                          \o DataRows(disk[f])[r][1]
                                          \o <<"kupat", "holim:", HMOS[h]>>
                                          \o DataRows(disk[f])[r][h + 1]

C10_Witness ==
    /\ op = "load_knowledge_base"
    /\ LET doc == disk[Files[1]]
       IN  /\ doc.readable
           /\ ~doc.raises
           /\ Len(DataRows(doc)) = 2
           /\ Len(DataRows(doc)[1]) = 2
           /\ Len(DataRows(doc)[2]) = 4
           /\ Len(SelectSeq(Appended, IsRowChunk)) = 3

(***************************************************************************)
(* C11: within one load_knowledge_base call on a fresh instance no two     *)
(* chunks get the same chunk_id; the ids of row chunks are pairwise        *)
(* distinct and none of them is a "<file>_header" or "<file>_contact" id.  *)
(***************************************************************************)
FailedToParse(doc) == doc.exists /\ (~doc.readable \/ doc.raises)

ParsedCleanly(doc) == doc.exists /\ doc.readable /\ ~doc.raises

C11_ChunkIdsDistinct ==
    (op = "load_knowledge_base" /\ args.before = <<>>) =>
        /\ \A i \in 1..Len(chunks), j \in 1..Len(chunks) :
               i # j => chunks[i].chunk_id # chunks[j].chunk_id
        /\ \A i \in 1..Len(chunks) :
               Len(chunks[i].hmos) = 1 =>
                   \A f \in Range(html_files) :
                       chunks[i].chunk_id \notin {<<f, "header">>, <<f, "contact">>}

C11_Witness ==
    /\ op = "load_knowledge_base"
    /\ args.before = <<>>
    /\ LET rows == DataRows(disk[Files[1]])
       IN  /\ ParsedCleanly(disk[Files[1]])
           /\ Len(rows) = 2
           /\ Len(rows[1]) >= 4
           /\ rows[1] = rows[2]
    /\ Len(SelectSeq(chunks, IsRowChunk)) = 9
    /\ \E i \in 1..Len(chunks) : IsHeaderChunk(chunks[i])
    /\ \E i \in 1..Len(chunks) : IsContactChunk(chunks[i])

(***************************************************************************)
(* C12: when parsing one document raises, load_knowledge_base does not     *)
(* raise; it parses the remaining documents, and the chunks of the other   *)
(* documents are those of a load in which the failing document is absent.  *)
(***************************************************************************)
C12_LoadSurvivesBadDocument ==
    op = "load_knowledge_base" =>
        /\ ~ret.raised
        /\ \A g \in Range(Files) :
               FailedToParse(disk[g]) =>
                   SelectSeq(Appended, LAMBDA c : c.source_file # g)
                       = LoadedChunks([disk EXCEPT ![g] = Missing])

C12_Witness ==
    /\ op = "load_knowledge_base"
    /\ FailedToParse(disk[Files[1]])
    /\ disk[Files[1]].appended >= 1
    /\ Len(SelectSeq(Appended, LAMBDA c : c.source_file = Files[2])) = 5
    /\ \E i \in 1..Len(Appended) : Appended[i].source_file = Files[1]

(***************************************************************************)
(* C13: a document whose parsing fails contributes no chunk: the chunk     *)
(* list after the failed parse is the chunk list before it, whichever      *)
(* step (header, table, contact) raised.                                   *)
(***************************************************************************)
C13_FailedDocumentContributesNothing ==
    op = "load_knowledge_base" =>
        \A g \in Range(Files) :
            FailedToParse(disk[g]) =>
                \A i \in 1..Len(Appended) : Appended[i].source_file # g

(***************************************************************************)
(* C20: every parsed document yields exactly one header chunk, with        *)
(* chunk_id "<file>_header", entitled to all three HMOs and all three      *)
(* tiers, whatever the document contains.                                  *)
(***************************************************************************)
C20_OneHeaderPerDocument ==
    op = "load_knowledge_base" =>
        \A f \in Range(Files) :
            ParsedCleanly(disk[f]) =>
                LET headers == SelectSeq(Appended, LAMBDA c : c.chunk_id = <<f, "header">>)
                IN  /\ Len(headers) = 1
                    /\ headers[1].hmos = HMOS
                    /\ headers[1].tiers = TIERS

(***************************************************************************)
(* C14: when no chunk passes the HMO/tier filter, search_similar returns   *)
(* an empty list and get_context_for_query the empty context and an empty  *)
(* source list; neither raises.                                            *)
(***************************************************************************)
NoChunkPasses ==
    \A i \in 1..Len(chunks) : ~Entitled(chunks[i], args.user_hmo, args.user_tier)

NoContext == [context |-> <<>>, sources |-> <<>>]

C14_NoMatchIsEmpty ==
    /\ (op = "search_similar" /\ NoChunkPasses) => ret = Returned(<<>>)
    /\ (op = "get_context_for_query" /\ NoChunkPasses) => ret = Returned(NoContext)

C14_Witness ==
    /\ op = "get_context_for_query"
    /\ NoChunkPasses
    /\ Len(chunks) >= 3
    /\ \A i \in 1..Len(chunks) : chunks[i].chunk_id \in DOMAIN chunk_embeddings
    /\ args.provider_ok
    /\ args.max_context_length >= 12
    /\ ret.value = NoContext

(***************************************************************************)
(* C15: get_context_for_query returns the empty context and an empty       *)
(* source list whenever max_context_length is smaller than the word count  *)
(* of the top-ranked chunk's text, in particular for max_context_length 0, *)
(* even when matching chunks exist.                                        *)
(***************************************************************************)
\* the ranking the context of the last get_context_for_query was built from
ContextRanking ==
    search_similar(chunks, chunk_embeddings, get_embedding(args.query, args.provider_ok),
                   args.user_hmo, args.user_tier, ContextTopK)

C15_SmallBudgetIsEmpty ==
    op = "get_context_for_query" =>
        LET ranked == ContextRanking
        IN  (\/ args.max_context_length = 0
             \/ /\ ranked # <<>>
                /\ args.max_context_length < Len(ChunkText(ranked[1][1])))
                => ret.value = NoContext

C15_Witness ==
    /\ op = "get_context_for_query"
    /\ args.max_context_length > 0
    /\ LET ranked == ContextRanking
       IN  /\ Len(ranked) >= 2
           /\ args.max_context_length < Len(ChunkText(ranked[1][1]))
           /\ \E k \in 2..Len(ranked) :
                  Len(ChunkText(ranked[k][1])) <= args.max_context_length
    /\ ret.value = NoContext

(***************************************************************************)
(* C18: search_similar, get_context_for_query and get_stats leave the      *)
(* chunk list, the fields of every chunk and the chunk_embeddings map as   *)
(* they are, for any sequence of queries.                                  *)
(***************************************************************************)
C18_QueriesReadOnly ==
    [][op' \in {"search_similar", "get_context_for_query", "get_stats"}
          => (chunks' = chunks /\ chunk_embeddings' = chunk_embeddings)]_vars

C18_Witness ==
    /\ op = "search_similar"
    /\ builds = 1
    /\ ~Given(args.user_hmo)
    /\ ~Given(args.user_tier)
    /\ Len(ret.value) >= 3
    /\ ~IsSubsequence([k \in 1..Len(ret.value) |-> ret.value[k][1]], chunks)

(***************************************************************************)
(* C19: a chunk whose build-time embedding call failed (zero vector) gets  *)
(* score 0 for every query; search_similar does not raise because of it,   *)
(* and the chunk stays in the ranking, at score 0.                         *)
(***************************************************************************)
C19_ZeroVectorScoresZero ==
    op = "search_similar" =>
        LET full == Ranking(chunks, chunk_embeddings,
                            get_embedding(args.query, args.provider_ok),
                            args.user_hmo, args.user_tier)
        IN  /\ ~ret.raised
            /\ \A k \in 1..Len(ret.value) :
                   chunk_embeddings[ret.value[k][1].chunk_id] = ZeroVector
                       => ret.value[k][2] = 0
            /\ \A i \in IndexedPassing :
                   chunk_embeddings[chunks[i].chunk_id] = ZeroVector
                       => \E k \in 1..Len(full) : full[k] = <<chunks[i], 0>>

C19_Witness ==
    /\ op = "search_similar"
    /\ args.provider_ok
    /\ Len(ret.value) = 3
    /\ ret.value[1][2] > 0
    /\ ret.value[2][2] = 0
    /\ chunk_embeddings[ret.value[2][1].chunk_id] = ZeroVector
    /\ ret.value[3][2] < 0

(***************************************************************************)
(* C16: the embedding provider is called exactly once per chunk during the *)
(* index build, and exactly once for the query text while one chat query   *)
(* is answered by generate_answer.                                         *)
(***************************************************************************)
C16_OneProviderCallPerText ==
    /\ op = "initialize_knowledge_base" =>
           embedded = [i \in 1..Len(chunks) |-> chunks[i].content]
    /\ op = "generate_answer" =>
           Len(SelectSeq(embedded, LAMBDA text : text = args.query)) = 1

(***************************************************************************)
(* C17: under every interleaving of the requests that call                 *)
(* get_embeddings_service, no handler obtains or uses the service before   *)
(* its initialize_knowledge_base has completed: a handler that holds the   *)
(* service sees the whole chunk list and an index entry for every chunk.   *)
(***************************************************************************)
Initializing == \E q \in Requests : At(q, "initialize_knowledge_base") \/ At(q, "build")

C17_NoUseBeforeInitialized ==
    \A r \in Requests :
        At(r, "serving") =>
            /\ ~Initializing
            /\ chunks = LoadedChunks(disk)
            /\ \A i \in 1..Len(chunks) : chunks[i].chunk_id \in DOMAIN chunk_embeddings

C17_Witness ==
    \E r \in Requests, q \in Requests :
        /\ At(r, "serving")
        /\ pc[r].i = 0
        /\ At(q, "done")
        /\ pc[q].i > 3
        /\ builds = 1

(***************************************************************************)
(* C21: the tiers of a row chunk are exactly the tier keywords that occur  *)
(* as substrings of the text of its cell, and all three tiers when none    *)
(* occurs; they are never empty, hold no tier twice and only known tiers.  *)
(***************************************************************************)
\* the tier keywords that are a substring of some word of the cell text
TiersNamedIn(cell) == {t \in Range(TIERS) : \E w \in Range(cell) : SubstringOf(t, w)}

C21_TiersFromCellText ==
    op = "load_knowledge_base" =>
        \A f \in Range(Files) :
            (disk[f].exists /\ disk[f].readable /\ ~disk[f].raises) =>
                LET row_chunks == SelectSeq(Appended,
                                      LAMBDA c : IsRowChunk(c) /\ c.source_file = f)
                    full == FullRows(disk[f])
                IN  \A k \in 1..Cardinality(full), h \in 1..3 :
                        LET cell == DataRows(disk[f])[KthOf(full, k)][h + 1]
                            tiers == row_chunks[3 * (k - 1) + h].tiers
                        IN  /\ Range(tiers) = IF TiersNamedIn(cell) # {}
                                              THEN TiersNamedIn(cell) ELSE Range(TIERS)
                            /\ tiers # <<>>
                            /\ \A a \in 1..Len(tiers), b \in 1..Len(tiers) :
                                   a # b => tiers[a] # tiers[b]

C21_Witness ==
    /\ op = "load_knowledge_base"
    /\ ~disk[Files[1]].raises
    /\ \E i \in 1..Len(Appended) :
           /\ IsRowChunk(Appended[i])
           /\ Appended[i].tiers = <<"gold", "bronze">>
    /\ \E i \in 1..Len(Appended) :
           /\ IsRowChunk(Appended[i])
           /\ Appended[i].tiers = <<"silver">>
    /\ \E i \in 1..Len(Appended) :
           /\ IsRowChunk(Appended[i])
           /\ Appended[i].tiers = TIERS

(***************************************************************************)
(* C22: /chat answers with status no_match exactly when retrieval returned *)
(* an empty context and an empty source list, and a failure of the         *)
(* answer-generation call is reported with status error, never no_match.   *)
(***************************************************************************)
\* whether the last /chat request got as far as retrieval
RetrievalRan == op = "chat" /\ embedded # <<>>

\* what get_context_for_query returned to generate_answer in the last /chat
ChatRetrieved ==
    get_context_for_query(chunks, chunk_embeddings,
                          get_embedding(args.query, args.context_ok),
                          args.user_profile.hmo, args.user_profile.membership_tier,
                          AnswerContextLength)

C22_NoMatchOnlyForEmptyRetrieval ==
    RetrievalRan =>
        /\ ret.value.status = "no_match" <=> ChatRetrieved = NoContext
        /\ ~args.chat_ok => ret.value.status = "error"

(***************************************************************************)
(* C23: the chunk texts get_context_for_query includes are those of a      *)
(* prefix of the top-10 ranking, in ranking order: at most 10, up to the   *)
(* first chunk that would overflow the budget, and none after that chunk   *)
(* even if it would fit.                                                   *)
(***************************************************************************)
C23_ContiguousPrefix ==
    op = "get_context_for_query" =>
        LET ranked == Ranking(chunks, chunk_embeddings,
                              get_embedding(args.query, args.provider_ok),
                              args.user_hmo, args.user_tier)
            included == IncludedTexts
            n == Len(included)
        IN  /\ n <= ContextTopK
            /\ n <= Len(ranked)
            /\ \A k \in 1..n : included[k] = ChunkText(ranked[k][1])
            /\ (n < ContextTopK /\ n < Len(ranked)) =>
                   SumLen(included) + Len(ChunkText(ranked[n + 1][1]))
                       > args.max_context_length

C23_Witness ==
    /\ op = "get_context_for_query"
    /\ LET ranked == ContextRanking
           n == Len(IncludedTexts)
       IN  /\ n >= 1
           /\ n + 2 <= Len(ranked)
           /\ \E k \in (n + 2)..Len(ranked) :
                  SumLen(IncludedTexts) + Len(ChunkText(ranked[k][1]))
                      <= args.max_context_length

(***************************************************************************)
(* C24: in every reachable state, after any number of load_knowledge_base  *)
(* and initialize_knowledge_base calls on one instance, the chunk list     *)
(* holds each chunk_id at most once.                                       *)
(***************************************************************************)
C24_ChunkIdsUniqueAcrossLoads ==
    \A i \in 1..Len(chunks), j \in 1..Len(chunks) :
        i # j => chunks[i].chunk_id # chunks[j].chunk_id

(***************************************************************************)
(* C25: the word count of the context string get_context_for_query         *)
(* returns, split on whitespace with the separators between the chunk      *)
(* texts counted, is at most max_context_length.                           *)
(***************************************************************************)
\* len(context.split()): the separator line "---" is a word of the string
WordCount(context) == Len(context)

C25_ContextStringWithinBudget ==
    op = "get_context_for_query" => WordCount(ret.value.context) <= args.max_context_length

(***************************************************************************)
(* C26: for every result of get_context_for_query the context string is    *)
(* empty if and only if the source list is empty.                          *)
(***************************************************************************)
C26_ContextEmptyIffNoSources ==
    op = "get_context_for_query" => (ret.value.context = <<>> <=> ret.value.sources = <<>>)

C26_Witness ==
    /\ op = "get_context_for_query"
    /\ ret.value.context # <<>>
    /\ ret.value.sources # <<>>
    /\ Len(ret.value.sources) < Len(IncludedTexts)
    /\ Len(IncludedTexts) < Len(ContextRanking)

(***************************************************************************)
(* C27: whenever /chat invokes retrieval, the hmo of the request's profile *)
(* is one of the three valid HMOs and its membership_tier one of the three *)
(* valid tiers; retrieval never runs with the HMO or the tier filter       *)
(* absent, whatever the confirmed flag and the fields of the request.      *)
(***************************************************************************)
C27_RetrievalAlwaysFiltered ==
    RetrievalRan =>
        /\ args.user_profile.hmo \in Range(HMOS)
        /\ args.user_profile.membership_tier \in Range(TIERS)

(***************************************************************************)
(* C28: the intake dialog fills the profile in the sequence first_name,    *)
(* last_name, id_number, gender, age, hmo, hmo_card_number,                *)
(* membership_tier: get_next_question never assigns a field while an       *)
(* earlier field of the sequence is still empty, for any user message.     *)
(***************************************************************************)
FieldSequence ==
    <<"first_name", "last_name", "id_number", "gender", "age", "hmo", "hmo_card_number",
      "membership_tier">>

FieldEmpty(profile, field) ==
    IF field = "age" THEN profile.age = NoAge ELSE profile[field] = ""

\* whether the last /collect_user_info request got as far as get_next_question
Asked == op = "collect_user_info" /\ ret.value.status = "in_progress"

C28_FieldsFilledInSequence ==
    Asked =>
        \A k \in 1..Len(FieldSequence) :
            args.user_profile[FieldSequence[k]] # user_profile[FieldSequence[k]] =>
                \A j \in 1..(k - 1) : ~FieldEmpty(args.user_profile, FieldSequence[j])

(***************************************************************************)
(* C29: every HMO value get_next_question stores in the profile from an    *)
(* answer to its HMO question is accepted by validate_hmo, so the profile  *)
(* /collect_user_info returned is never rejected as "Invalid HMO" on the   *)
(* next request and the dialog can proceed.                                *)
(***************************************************************************)
C29_StoredHmoIsValid ==
    /\ (Asked /\ user_profile.hmo # args.user_profile.hmo) => validate_hmo(user_profile.hmo)
    /\ op = "collect_user_info" => ret.value # [status |-> "error", message |-> "Invalid HMO"]

(***************************************************************************)
(* C30: get_next_question returns a field question if and only if its      *)
(* completeness check (age filled when it is not None) fails, and the      *)
(* question asks for the first field of the sequence that the check treats *)
(* as unfilled; a field with a stored answer, age 0 included, is not asked *)
(* again, and a later answer reaches the later field it is for.            *)
(***************************************************************************)
\* whether the completeness check counts the field as unfilled
Unfilled(profile, field) ==
    IF field = "age" THEN profile.age = NoAge ELSE Falsy(profile[field])

\* the first field of the sequence the check counts as unfilled, "" when none
FirstUnfilled(profile) ==
    LET open == {k \in 1..Len(FieldSequence) : Unfilled(profile, FieldSequence[k])}
    IN  IF open = {} THEN "" ELSE FieldSequence[KthOf(open, 1)]

C30_QuestionFollowsCompleteness ==
    Asked =>
        LET question == ret.value.next_question
        IN  /\ question \in Range(FieldSequence) <=> ~RequiredFilled(user_profile)
            /\ question \in Range(FieldSequence) => question = FirstUnfilled(user_profile)
            /\ (/\ FirstUnfilled(args.user_profile) = "hmo_card_number"
                /\ IsDigit(args.message)
                /\ StrLen(args.message) = 9)
                   => user_profile.hmo_card_number = args.message

====
